---- MODULE Spec2Model ----
(***************************************************************************)
(* Span utilities of the similarity-aware span loss (span_utils.py, two    *)
(* snapshots: loss1/ft_detach and loss2/duration2).                        *)
(*                                                                         *)
(* Numbers.  A tensor element is modelled as an exact rational <<n, d>>    *)
(* in lowest terms with d > 0; the results of a division by zero are the   *)
(* IEEE values the tensor library produces: NaN = <<0, 0>> (0/0, and the   *)
(* mean of an empty slice), +Inf = <<1, 0>>, -Inf = <<-1, 0>>.  Rounding   *)
(* of the binary floating-point format is not modelled: arithmetic is      *)
(* exact.  torch.round is round-half-to-even, .int() truncates.            *)
(***************************************************************************)
EXTENDS Integers, Sequences, FiniteSets, TLC

VARIABLES
    pc,             \* position of the caller: which function has been applied
    xx_spans,       \* argument of span_xx_to_cxw: rows (st, ed)
    cxw_spans,      \* its result, the argument of span_cxw_to_xx
    xx_back,        \* result of span_cxw_to_xx
    spans1,         \* first span batch (predictions in new_loss)
    spans2,         \* second span batch (ground truth in new_loss)
    iou,            \* temporal_iou(spans1, spans2)[0]
    union,          \* temporal_iou(spans1, spans2)[1]
    iouT,           \* temporal_iou(spans2, spans1)[0]
    unionT,         \* temporal_iou(spans2, spans1)[1]
    giou,           \* generalized_temporal_iou(spans1, spans2)
    snapshot,       \* 1: loss1/ft_detach, 2: loss2/duration2
    iou_loss_types, \* enabled term identifiers
    idx,            \* batch row -> video
    sims,           \* similarity payload: [logits |-> (bsz, L), vid_feat |-> (bsz, L, L)]
    durations,      \* per-video duration (second snapshot)
    ret             \* what new_loss produced

vars == <<pc, xx_spans, cxw_spans, xx_back, spans1, spans2, iou, union, iouT,
          unionT, giou, snapshot, iou_loss_types, idx, sims, durations, ret>>

convVars == <<xx_spans, cxw_spans, xx_back>>
iouVars == <<iou, union, iouT, unionT, giou>>
lossVars == <<snapshot, iou_loss_types, idx, sims, durations, ret>>

None == <<>>

-----------------------------------------------------------------------------
(* Bounds of the model.                                                    *)

\* Spans of the exhaustive inputs lie on the grid k / GridDen.
GridDen == 3

\* Sequence length L of the similarity tensors handed to new_loss
\* (sims.shape[1]); the longest video has duration // 2 = ClipLen clips.
ClipLen == 4

\* Number of similarity payloads new_loss is tried on.
NumPayloads == 2

-----------------------------------------------------------------------------
(* Exact arithmetic on tensor elements.                                    *)

Abs(x) == IF x < 0 THEN -x ELSE x

RECURSIVE Gcd(_, _)
Gcd(a, b) == IF b = 0 THEN a ELSE Gcd(b, a % b)

Sign(x) == IF x > 0 THEN 1 ELSE IF x < 0 THEN -1 ELSE 0

\* The element n / d; d = 0 gives NaN (n = 0) or a signed infinity.
Q(n, d) ==
    IF d = 0 THEN <<Sign(n), 0>>
    ELSE LET g == Gcd(Abs(n), Abs(d))
             s == IF d < 0 THEN -1 ELSE 1
         IN  <<(s * n) \div g, (s * d) \div g>>

NaN == <<0, 0>>
Zero == <<0, 1>>
One == <<1, 1>>
Half == <<1, 2>>

IsNaN(a) == a[2] = 0 /\ a[1] = 0
IsFinite(a) == a[2] # 0

RNeg(a) == <<-a[1], a[2]>>

RAdd(a, b) ==
    IF IsFinite(a) /\ IsFinite(b) THEN Q(a[1] * b[2] + b[1] * a[2], a[2] * b[2])
    ELSE IF IsNaN(a) \/ IsNaN(b) THEN NaN
    ELSE IF IsFinite(a) THEN b
    ELSE IF IsFinite(b) THEN a
    ELSE IF a[1] = b[1] THEN a ELSE NaN

RSub(a, b) == RAdd(a, RNeg(b))

RMul(a, b) ==
    IF IsFinite(a) /\ IsFinite(b) THEN Q(a[1] * b[1], a[2] * b[2])
    ELSE IF IsNaN(a) \/ IsNaN(b) THEN NaN
    ELSE <<Sign(a[1]) * Sign(b[1]), 0>>

RDiv(a, b) ==
    IF IsFinite(a) /\ IsFinite(b) THEN Q(a[1] * b[2], a[2] * b[1])
    ELSE IF IsNaN(a) \/ IsNaN(b) THEN NaN
    ELSE IF IsFinite(b) THEN <<a[1] * (IF b[1] < 0 THEN -1 ELSE 1), 0>>
    ELSE IF IsFinite(a) THEN Zero
    ELSE NaN

\* a < b and a <= b as the tensor comparison gives them: False on NaN.
RLt(a, b) ==
    IF IsNaN(a) \/ IsNaN(b) THEN FALSE
    ELSE IF IsFinite(a) /\ IsFinite(b) THEN a[1] * b[2] < b[1] * a[2]
    ELSE IF IsFinite(a) THEN b[1] > 0
    ELSE IF IsFinite(b) THEN a[1] < 0
    ELSE a[1] < b[1]

RLe(a, b) == ~IsNaN(a) /\ ~IsNaN(b) /\ ~RLt(b, a)

\* torch.max / torch.min of two elements (NaN propagates).
RMax(a, b) == IF IsNaN(a) \/ IsNaN(b) THEN NaN ELSE IF RLt(a, b) THEN b ELSE a
RMin(a, b) == IF IsNaN(a) \/ IsNaN(b) THEN NaN ELSE IF RLt(b, a) THEN b ELSE a

\* x.clamp(min=0)
ClampMin0(a) == IF IsNaN(a) THEN NaN ELSE RMax(a, Zero)

RAbs(a) == <<Abs(a[1]), a[2]>>

-----------------------------------------------------------------------------
(* Span format converters.                                                 *)

\* Mutant of span_cxw_to_xx: the width is not halved.
span_cxw_to_xx_full_width(cxw) ==
    [r \in DOMAIN cxw |-> <<RSub(cxw[r][1], cxw[r][2]), RAdd(cxw[r][1], cxw[r][2])>>]

\* center = xx_spans.sum(-1) * 0.5, width = xx_spans[..., 1] - xx_spans[..., 0]
span_xx_to_cxw(xx) ==
    [r \in DOMAIN xx |->
        <<RMul(RAdd(xx[r][1], xx[r][2]), Half), RSub(xx[r][2], xx[r][1])>>]

\* x1 = c - 0.5 * w, x2 = c + 0.5 * w
span_cxw_to_xx(cxw) ==
    [r \in DOMAIN cxw |->
        <<RSub(cxw[r][1], RMul(Half, cxw[r][2])),
          RAdd(cxw[r][1], RMul(Half, cxw[r][2]))>>]

\* Values of the converter inputs: the grid from -1/GridDen to 1 + 1/GridDen
\* (a predicted span may leave [0, 1]).
ConvValues == {Q(k, GridDen) : k \in -1 .. GridDen + 1}
ConvSpans == ConvValues \X ConvValues
ConvBatches == UNION {[1 .. n -> ConvSpans] : n \in {1, 2}}

InitConv ==
    /\ pc = "conv_start"
    /\ xx_spans \in ConvBatches
    /\ cxw_spans = None /\ xx_back = None
    /\ spans1 = None /\ spans2 = None
    /\ iou = None /\ union = None /\ iouT = None /\ unionT = None /\ giou = None
    /\ snapshot = 0 /\ iou_loss_types = {} /\ idx = None /\ sims = None
    /\ durations = None /\ ret = None

Call_span_xx_to_cxw ==
    /\ pc = "conv_start"
    /\ cxw_spans' = span_xx_to_cxw(xx_spans)
    /\ pc' = "conv_cxw"
    /\ UNCHANGED <<xx_spans, xx_back, spans1, spans2, iouVars, lossVars>>

Call_span_cxw_to_xx ==
    /\ pc = "conv_cxw"
    /\ xx_back' = span_cxw_to_xx(cxw_spans)
    /\ pc' = "conv_back"
    /\ UNCHANGED <<xx_spans, cxw_spans, spans1, spans2, iouVars, lossVars>>

NextConv == Call_span_xx_to_cxw \/ Call_span_cxw_to_xx

SpecConv == InitConv /\ [][NextConv]_vars

-----------------------------------------------------------------------------
(* C9: round trip.  For every row s = (start, end) with start <= end,      *)
(* span_cxw_to_xx(span_xx_to_cxw(s)) = s; the intermediate row is          *)
(* (center = (start + end) / 2, width = end - start) and every row keeps   *)
(* two components.                                                         *)
C9_RoundTrip ==
    /\ pc \in {"conv_cxw", "conv_back"} =>
        /\ DOMAIN cxw_spans = DOMAIN xx_spans
        /\ \A r \in DOMAIN xx_spans :
            /\ Len(cxw_spans[r]) = 2
            /\ RAdd(cxw_spans[r][1], cxw_spans[r][1]) = RAdd(xx_spans[r][1], xx_spans[r][2])
            /\ RAdd(cxw_spans[r][2], xx_spans[r][1]) = xx_spans[r][2]
    /\ pc = "conv_back" =>
        /\ DOMAIN xx_back = DOMAIN xx_spans
        /\ \A r \in DOMAIN xx_spans :
            /\ Len(xx_back[r]) = 2
            /\ RLe(xx_spans[r][1], xx_spans[r][2]) => xx_back[r] = xx_spans[r]

\* A two-row batch has been converted there and back; one row is a proper span
\* whose centre is off the grid, the other a zero-length span.
C9_Witness ==
    /\ pc = "conv_back"
    /\ Len(xx_spans) = 2
    /\ xx_spans[1] = <<Q(0, 1), Q(1, GridDen)>>
    /\ cxw_spans[1] = <<Q(1, 2 * GridDen), Q(1, GridDen)>>
    /\ xx_spans[2][1] = xx_spans[2][2]
    /\ xx_back = xx_spans

-----------------------------------------------------------------------------
(* Temporal IoU and generalized IoU.                                       *)

Area(s) == RSub(s[2], s[1])

\* inter = (right - left).clamp(min=0) for the pair (a, b)
Inter(a, b) == ClampMin0(RSub(RMin(a[2], b[2]), RMax(a[1], b[1])))

\* Mutant of temporal_iou_union: the intersection is not subtracted.
temporal_iou_union_no_inter(s1, s2) ==
    [i \in DOMAIN s1 |-> [j \in DOMAIN s2 |-> RAdd(Area(s1[i]), Area(s2[j]))]]

\* union = areas1[:, None] + areas2 - inter, an (N, M) matrix
temporal_iou_union(s1, s2) ==
    [i \in DOMAIN s1 |-> [j \in DOMAIN s2 |->
        RSub(RAdd(Area(s1[i]), Area(s2[j])), Inter(s1[i], s2[j]))]]

\* Mutant of temporal_iou_iou: the difference right - left is not clamped at 0.
temporal_iou_iou_no_clamp(s1, s2) ==
    [i \in DOMAIN s1 |-> [j \in DOMAIN s2 |->
        RDiv(RSub(RMin(s1[i][2], s2[j][2]), RMax(s1[i][1], s2[j][1])),
             temporal_iou_union(s1, s2)[i][j])]]

\* Mutant of temporal_iou_iou: column j is paired with spans2[1] (no broadcast
\* over the second batch).
temporal_iou_iou_first_column(s1, s2) ==
    [i \in DOMAIN s1 |-> [j \in DOMAIN s2 |->
        RDiv(Inter(s1[i], s2[1]), temporal_iou_union(s1, s2)[i][1])]]

\* Mutant of temporal_iou_iou: the intersection is divided by the second span's
\* own length (as temporal_intersection_over_pred does).
temporal_iou_iou_over_second(s1, s2) ==
    [i \in DOMAIN s1 |-> [j \in DOMAIN s2 |->
        RDiv(Inter(s1[i], s2[j]), Area(s2[j]))]]

\* iou = inter / union, an (N, M) matrix
temporal_iou_iou(s1, s2) ==
    [i \in DOMAIN s1 |-> [j \in DOMAIN s2 |->
        RDiv(Inter(s1[i], s2[j]), temporal_iou_union(s1, s2)[i][j])]]

\* temporal_iou returns (iou, union)
temporal_iou(s1, s2) == <<temporal_iou_iou(s1, s2), temporal_iou_union(s1, s2)>>

\* The two assertions of generalized_temporal_iou (and of new_loss).
AllValid(s) == \A r \in DOMAIN s : RLe(s[r][1], s[r][2])

\* enclosing_area = (max(ed1, ed2) - min(st1, st2)).clamp(min=0)
EnclosingArea(a, b) == ClampMin0(RSub(RMax(a[2], b[2]), RMin(a[1], b[1])))

\* Mutant of generalized_temporal_iou: the penalty is added.
generalized_temporal_iou_plus(s1, s2) ==
    [i \in DOMAIN s1 |-> [j \in DOMAIN s2 |->
        RAdd(temporal_iou(s1, s2)[1][i][j],
             RDiv(RSub(EnclosingArea(s1[i], s2[j]), temporal_iou(s1, s2)[2][i][j]),
                  EnclosingArea(s1[i], s2[j])))]]

\* iou - (enclosing_area - union) / enclosing_area (after the assertions)
generalized_temporal_iou(s1, s2) ==
    [i \in DOMAIN s1 |-> [j \in DOMAIN s2 |->
        RSub(temporal_iou(s1, s2)[1][i][j],
             RDiv(RSub(EnclosingArea(s1[i], s2[j]), temporal_iou(s1, s2)[2][i][j]),
                  EnclosingArea(s1[i], s2[j])))]]

\* The documented example of temporal_iou.
test_spans1 == <<<<Q(0, 1), Q(2, 10)>>, <<Q(5, 10), Q(1, 1)>>>>
test_spans2 == <<<<Q(0, 1), Q(3, 10)>>, <<Q(0, 1), Q(1, 1)>>>>

\* Exhaustive inputs: every pair of values of the grid 0 .. 1 (rows with
\* end < start included: temporal_iou accepts them), in the shapes (N, M) below.
IouValues == {Q(k, GridDen) : k \in 0 .. GridDen}
IouSpans == IouValues \X IouValues
IouShapes == {<<1, 1>>, <<2, 1>>, <<1, 2>>}

InitIou ==
    /\ pc = "iou_start"
    /\ \/ \E sh \in IouShapes :
            /\ spans1 \in [1 .. sh[1] -> IouSpans]
            /\ spans2 \in [1 .. sh[2] -> IouSpans]
       \/ spans1 = test_spans1 /\ spans2 = test_spans2
    /\ iou = None /\ union = None /\ iouT = None /\ unionT = None /\ giou = None
    /\ xx_spans = None /\ cxw_spans = None /\ xx_back = None
    /\ snapshot = 0 /\ iou_loss_types = {} /\ idx = None /\ sims = None
    /\ durations = None /\ ret = None

Call_temporal_iou ==
    /\ pc = "iou_start"
    /\ iou' = temporal_iou(spans1, spans2)[1]
    /\ union' = temporal_iou(spans1, spans2)[2]
    /\ pc' = "iou_done"
    /\ UNCHANGED <<spans1, spans2, iouT, unionT, giou, convVars, lossVars>>

\* The same function applied to the swapped arguments.
Call_temporal_iou_swapped ==
    /\ pc = "iou_done"
    /\ iouT' = temporal_iou(spans2, spans1)[1]
    /\ unionT' = temporal_iou(spans2, spans1)[2]
    /\ pc' = "iou_swapped"
    /\ UNCHANGED <<spans1, spans2, iou, union, giou, convVars, lossVars>>

Call_generalized_temporal_iou ==
    /\ pc = "iou_done"
    /\ IF AllValid(spans1) /\ AllValid(spans2)
       THEN giou' = generalized_temporal_iou(spans1, spans2) /\ pc' = "giou_done"
       ELSE giou' = None /\ pc' = "giou_assert"
    /\ UNCHANGED <<spans1, spans2, iou, union, iouT, unionT, convVars, lossVars>>

NextIou ==
    \/ Call_temporal_iou
    \/ Call_temporal_iou_swapped
    \/ Call_generalized_temporal_iou

SpecIou == InitIou /\ [][NextIou]_vars

IouComputed == pc \in {"iou_done", "iou_swapped", "giou_done", "giou_assert"}

Valid(s) == RLe(s[1], s[2])
\* Two spans with a gap between them.
Disjoint(a, b) == RLt(a[2], b[1]) \/ RLt(b[2], a[1])
ZeroLength(s) == s[1] = s[2]

-----------------------------------------------------------------------------
(* Claims about temporal_iou and generalized_temporal_iou (SpecIou).       *)

\* The intersection length of two spans, written out case by case.
PairInter(a, b) ==
    LET lo == IF RLt(a[1], b[1]) THEN b[1] ELSE a[1]
        hi == IF RLt(a[2], b[2]) THEN a[2] ELSE b[2]
    IN  IF RLt(hi, lo) THEN Zero ELSE RSub(hi, lo)

\* The intersection that the returned union implies: area1 + area2 - union.
ImpliedInter(i, j) == RSub(RAdd(Area(spans1[i]), Area(spans2[j])), union[i][j])

C4_Formula ==
    /\ DOMAIN iou = DOMAIN spans1 /\ DOMAIN union = DOMAIN spans1
    /\ \A i \in DOMAIN spans1 :
        /\ DOMAIN iou[i] = DOMAIN spans2 /\ DOMAIN union[i] = DOMAIN spans2
        /\ \A j \in DOMAIN spans2 :
            /\ union[i][j] = RSub(RAdd(Area(spans1[i]), Area(spans2[j])),
                                  PairInter(spans1[i], spans2[j]))
            /\ iou[i][j] = RDiv(PairInter(spans1[i], spans2[j]), union[i][j])

C4_Example ==
    (spans1 = test_spans1 /\ spans2 = test_spans2) =>
        /\ iou = <<<<Q(2, 3), Q(1, 5)>>, <<Zero, Q(1, 2)>>>>
        /\ union = <<<<Q(3, 10), One>>, <<Q(8, 10), One>>>>

(* C4 as stated: temporal_iou returns, for every pair (i, j) of the cross  *)
(* product, union = area1 + area2 - intersection and iou = intersection /  *)
(* union with intersection = max(0, min(end) - max(start)); intersection   *)
(* and iou are 0 for every disjoint pair; the documented example gives     *)
(* iou = [[2/3, 1/5], [0, 1/2]], union = [[0.3, 1], [0.8, 1]].             *)
C4_Original ==
    IouComputed =>
        /\ C4_Formula
        /\ C4_Example
        /\ \A i \in DOMAIN spans1 : \A j \in DOMAIN spans2 :
            (Valid(spans1[i]) /\ Valid(spans2[j]) /\ Disjoint(spans1[i], spans2[j])) =>
                ImpliedInter(i, j) = Zero /\ iou[i][j] = Zero

(* C4 amended: as above, but a disjoint pair has iou = 0 only when at      *)
(* least one of the two spans has positive length; for two zero-length     *)
(* spans the union is 0 and iou is 0/0 = NaN.                              *)
C4_Amended ==
    IouComputed =>
        /\ C4_Formula
        /\ C4_Example
        /\ \A i \in DOMAIN spans1 : \A j \in DOMAIN spans2 :
            (Valid(spans1[i]) /\ Valid(spans2[j]) /\ Disjoint(spans1[i], spans2[j])) =>
                /\ ImpliedInter(i, j) = Zero
                /\ IF ZeroLength(spans1[i]) /\ ZeroLength(spans2[j])
                   THEN union[i][j] = Zero /\ IsNaN(iou[i][j])
                   ELSE iou[i][j] = Zero

\* The documented example has been computed: a partial overlap (2/3), a
\* containment (1/5, 1/2) and a disjoint pair (0) of the cross product.
C4_Witness ==
    /\ pc = "iou_done"
    /\ spans1 = test_spans1 /\ spans2 = test_spans2
    /\ iou[1][1] = Q(2, 3) /\ iou[2][1] = Zero /\ union[2][1] = Q(4, 5)
    /\ Disjoint(spans1[2], spans2[1])

\* The penalty of the pair (a, b), from its definition.
PairPenalty(a, b, u) ==
    LET hi == IF RLt(a[2], b[2]) THEN b[2] ELSE a[2]
        lo == IF RLt(a[1], b[1]) THEN a[1] ELSE b[1]
        enclosing == RSub(hi, lo)
    IN  RDiv(RSub(enclosing, u), enclosing)

(* C6: for rows with end > start, generalized_temporal_iou[i, j] <=        *)
(* temporal_iou[i, j] for every pair: giou = iou - (enclosing_area -       *)
(* union) / enclosing_area with enclosing_area = max(end1, end2) -         *)
(* min(start1, start2), and the subtracted penalty is never negative.      *)
C6_GiouLeIou ==
    pc = "giou_done" =>
        \A i \in DOMAIN spans1 : \A j \in DOMAIN spans2 :
            (RLt(spans1[i][1], spans1[i][2]) /\ RLt(spans2[j][1], spans2[j][2])) =>
                /\ RLe(giou[i][j], iou[i][j])
                /\ RLe(Zero, PairPenalty(spans1[i], spans2[j], union[i][j]))
                /\ giou[i][j] = RSub(iou[i][j], PairPenalty(spans1[i], spans2[j], union[i][j]))

\* The documented example: giou = [[2/3, 1/5], [-1/5, 1/2]]; the disjoint pair
\* is penalised, the overlapping ones are not.
C6_Witness ==
    /\ pc = "giou_done"
    /\ spans1 = test_spans1 /\ spans2 = test_spans2
    /\ giou = <<<<Q(2, 3), Q(1, 5)>>, <<Q(-1, 5), Q(1, 2)>>>>
    /\ RLt(giou[2][1], iou[2][1])

(* C7 as stated: for every pair (i, j) whose spans are the identical span  *)
(* (same start, same end, end >= start), temporal_iou[i, j] = 1.           *)
C7_Original ==
    IouComputed =>
        \A i \in DOMAIN spans1 : \A j \in DOMAIN spans2 :
            (spans1[i] = spans2[j] /\ RLe(spans1[i][1], spans1[i][2])) =>
                iou[i][j] = One

(* C7 amended: for every pair of identical spans with end > start,         *)
(* temporal_iou[i, j] = 1; for an identical zero-length pair (end = start) *)
(* the union is 0 and the result is 0/0 = NaN.                             *)
C7_Amended ==
    IouComputed =>
        \A i \in DOMAIN spans1 : \A j \in DOMAIN spans2 :
            (spans1[i] = spans2[j] /\ RLe(spans1[i][1], spans1[i][2])) =>
                IF RLt(spans1[i][1], spans1[i][2])
                THEN iou[i][j] = One /\ union[i][j] = Area(spans1[i])
                ELSE IsNaN(iou[i][j]) /\ union[i][j] = Zero

\* A batch holding the same proper span in both arguments, beside a different one.
C7_Witness ==
    /\ pc = "iou_done"
    /\ Len(spans1) = 2 /\ Len(spans2) = 1
    /\ spans1[2] = spans2[1] /\ RLt(spans2[1][1], spans2[1][2])
    /\ spans1[1] # spans2[1] /\ Valid(spans1[1])
    /\ iou[2][1] = One /\ iou[1][1] # One

(* C10: temporal_iou is symmetric up to transposition: for all span sets   *)
(* and every pair (i, j), temporal_iou(s1, s2) iou[i, j] =                 *)
(* temporal_iou(s2, s1) iou[j, i], and union[i, j] = union[j, i]  (an      *)
(* undefined 0/0 cell is undefined in both).                               *)
C10_Symmetric ==
    pc = "iou_swapped" =>
        /\ DOMAIN iouT = DOMAIN spans2 /\ DOMAIN unionT = DOMAIN spans2
        /\ \A i \in DOMAIN spans1 : \A j \in DOMAIN spans2 :
            /\ iou[i][j] = iouT[j][i]
            /\ union[i][j] = unionT[j][i]

\* Both calls have been made on a non-square input with an overlapping pair of
\* different lengths and a second, different row.
C10_Witness ==
    /\ pc = "iou_swapped"
    /\ Len(spans1) = 1 /\ Len(spans2) = 2
    /\ Area(spans1[1]) # Area(spans2[1])
    /\ RLt(Zero, iou[1][1]) /\ RLt(iou[1][1], One)
    /\ iou[1][2] # iou[1][1]
    /\ iouT[2][1] = iou[1][2]

-----------------------------------------------------------------------------
(* Index mapping, slicing and pooling used by the similarity terms.        *)

Min(a, b) == IF a < b THEN a ELSE b
Max(a, b) == IF a > b THEN a ELSE b

\* Mutant of Round: truncation toward minus infinity instead of rounding.
Round_floor(q) == q[1] \div q[2]

\* torch.round of a finite element: to the nearest integer, ties to even.
Round(q) ==
    LET f == q[1] \div q[2]
        r == q[1] - f * q[2]
    IN  IF 2 * r < q[2] THEN f
        ELSE IF 2 * r > q[2] THEN f + 1
        ELSE IF f % 2 = 0 THEN f ELSE f + 1

\* torch.clamp(x, min=lo, max=hi): min(max(x, lo), hi), also when lo > hi.
Clamp(x, lo, hi) == Min(Max(x, lo), hi)

\* First snapshot: torch.round(span * vid_clip_len), then .int() in the terms.
RoundSpan(span, L) == <<Round(RMul(span[1], Q(L, 1))), Round(RMul(span[2], Q(L, 1)))>>

\* Number of clips of a video: l_clip = durations[i] // 2.
ClipUnit == 2
LClip(duration) == duration \div ClipUnit

\* Mutant of MapSpan: the upper clamp is l_clip instead of l_clip - 1.
MapSpan_clamp_to_len(span, l_clip) ==
    <<Clamp(Round(RMul(span[1], Q(l_clip, 1))), 0, l_clip),
      Clamp(Round(RMul(span[2], Q(l_clip, 1))), 0, l_clip)>>

\* Second snapshot: torch.clamp(torch.round(span * l_clip), min=0, max=l_clip - 1).int()
MapSpan(span, l_clip) ==
    <<Clamp(Round(RMul(span[1], Q(l_clip, 1))), 0, l_clip - 1),
      Clamp(Round(RMul(span[2], Q(l_clip, 1))), 0, l_clip - 1)>>

\* The positions (0-based) that the Python slice x[a:b] selects from a
\* sequence of length L: a negative bound counts from the end.
PySlice(L, a, b) ==
    LET start == IF a < 0 THEN Max(a + L, 0) ELSE Min(a, L)
        stop == IF b < 0 THEN Max(b + L, 0) ELSE Min(b, L)
    IN  {t \in 0 .. L - 1 : start <= t /\ t < stop}

\* Predicted span: st, end = min(max(st, 0), vid_len - 1), min(end, vid_len - 1)
SrcClamp(sp, L) == <<Min(Max(sp[1], 0), L - 1), Min(sp[2], L - 1)>>

\* GT span: st, end = min(st, vid_len - 1), min(end, vid_len - 1)
TgtClamp(sp, L) == <<Min(sp[1], L - 1), Min(sp[2], L - 1)>>

\* st, end = min(max(st, 0), vid_len - 1), min(end, vid_len - 1); x[st:end + 1]
SrcRange(sp, L) == PySlice(L, SrcClamp(sp, L)[1], SrcClamp(sp, L)[2] + 1)

\* Mutant of TgtRange: the slice stops at end instead of end + 1.
TgtRange_exclusive(sp, L) == PySlice(L, Min(sp[1], L - 1), Min(sp[2], L - 1))

\* st, end = min(st, vid_len - 1), min(end, vid_len - 1); x[st:end + 1]
TgtRange(sp, L) == PySlice(L, TgtClamp(sp, L)[1], TgtClamp(sp, L)[2] + 1)

\* x[st:end + 1] with no clamping (S_GT_P of the second snapshot)
RawRange(sp, L) == PySlice(L, sp[1], sp[2] + 1)

RECURSIVE SumOver(_, _)
SumOver(row, I) ==
    IF I = {} THEN Zero
    ELSE LET t == CHOOSE x \in I : TRUE
         IN  RAdd(row[t + 1], SumOver(row, I \ {t}))

\* row[I].mean(): NaN for an empty selection.
Mean1D(row, I) == RDiv(SumOver(row, I), Q(Cardinality(I), 1))

RECURSIVE SumRows(_, _, _)
SumRows(mat, R, C) ==
    IF R = {} THEN Zero
    ELSE LET t == CHOOSE x \in R : TRUE
         IN  RAdd(SumOver(mat[t + 1], C), SumRows(mat, R \ {t}, C))

\* mat[R, :][:, C].flatten().mean()
Mean2D(mat, R, C) == RDiv(SumRows(mat, R, C), Q(Cardinality(R) * Cardinality(C), 1))

\* Mutant of GroupOf: each entry is put at the front of its video's list.
RECURSIVE GroupOf_prepend(_, _, _, _)
GroupOf_prepend(f, map, v, b) ==
    IF b > Len(map) THEN <<>>
    ELSE GroupOf_prepend(f, map, v, b + 1) \o (IF map[b] = v THEN <<f[b]>> ELSE <<>>)

\* The rows b (in increasing order) with idx[b] = v, mapped by f:
\* for b, i in enumerate(idx): group[i].append(f[b])
RECURSIVE GroupOf(_, _, _, _)
GroupOf(f, map, v, b) ==
    IF b > Len(map) THEN <<>>
    ELSE (IF map[b] = v THEN <<f[b]>> ELSE <<>>) \o GroupOf(f, map, v, b + 1)

Grouped(f, map, bsz) == [v \in 1 .. bsz |-> GroupOf(f, map, v, 1)]

\* The order in which the terms visit the grouped entries:
\* for i in range(bsz): for j in range(len(src_spans[i])), as pairs <<i, j>>.
RECURSIVE VisitFrom(_, _)
VisitFrom(groups, v) ==
    IF v > Len(groups) THEN <<>>
    ELSE [j \in 1 .. Len(groups[v]) |-> <<v, j>>] \o VisitFrom(groups, v + 1)

VisitOrder(groups) == VisitFrom(groups, 1)

-----------------------------------------------------------------------------
(* The similarity terms.  Each returns one element per visited entry, the  *)
(* k-th multiplied by (1 - iou[k]).                                        *)

\* sim_diffs of S_Diff: |mean over the predicted range - mean over the GT range|
S_Diff_sim_diffs(src_spans, tgt_spans, logits) ==
    LET L == Len(logits[1])
        order == VisitOrder(src_spans)
    IN  [k \in 1 .. Len(order) |->
            LET v == order[k][1]
                j == order[k][2]
                src_sim == Mean1D(logits[v], SrcRange(src_spans[v][j], L))
                tgt_sim == Mean1D(logits[v], TgtRange(tgt_spans[v][j], L))
            IN  RAbs(RSub(src_sim, tgt_sim))]

\* sim_diff_term = (1 - iou) * sim_diffs
S_Diff(iouv, src_spans, tgt_spans, logits) ==
    LET d == S_Diff_sim_diffs(src_spans, tgt_spans, logits)
    IN  [k \in 1 .. Len(d) |-> RMul(RSub(One, iouv[k]), d[k])]

\* S_GT_P of the first snapshot: both ranges clamped.
S_GT_P_loss1(iouv, src_spans, tgt_spans, v2v_sims) ==
    LET L == Len(v2v_sims[1])
        order == VisitOrder(src_spans)
    IN  [k \in 1 .. Len(order) |->
            LET v == order[k][1]
                j == order[k][2]
                i2i_sim == Mean2D(v2v_sims[v], SrcRange(src_spans[v][j], L),
                                  TgtRange(tgt_spans[v][j], L))
            IN  RMul(RSub(One, iouv[k]), RSub(One, i2i_sim))]

\* S_GT_P of the second snapshot: the clamping lines are commented out.
S_GT_P_loss2(iouv, src_spans, tgt_spans, v2v_sims) ==
    LET L == Len(v2v_sims[1])
        order == VisitOrder(src_spans)
    IN  [k \in 1 .. Len(order) |->
            LET v == order[k][1]
                j == order[k][2]
                i2i_sim == Mean2D(v2v_sims[v], RawRange(src_spans[v][j], L),
                                  RawRange(tgt_spans[v][j], L))
            IN  RMul(RSub(One, iouv[k]), RSub(One, i2i_sim))]

\* sim_p_q_term = (1 - iou) * (1 - mean over the predicted range)
S_Q_P(iouv, src_spans, logits) ==
    LET L == Len(logits[1])
        order == VisitOrder(src_spans)
    IN  [k \in 1 .. Len(order) |->
            LET v == order[k][1]
                j == order[k][2]
                src_sim == Mean1D(logits[v], SrcRange(src_spans[v][j], L))
            IN  RMul(RSub(One, iouv[k]), RSub(One, src_sim))]

-----------------------------------------------------------------------------
(* The loss aggregator new_loss, first and second snapshot.                *)

\* Mutant of DiagIou: column 1 of the cross product instead of the diagonal.
DiagIou_first_column(s1, s2) == [b \in 1 .. Len(s1) |-> temporal_iou(s1, s2)[1][b][1]]

\* iou, _ = temporal_iou(spans1, spans2); iou = torch.diag(iou)
DiagIou(s1, s2) == [b \in 1 .. Len(s1) |-> temporal_iou(s1, s2)[1][b][b]]

\* vid_clip_len: sims[0].shape[1] when term 2 is off, vid_feat.shape[1] otherwise.
VidClipLen(types, payload) ==
    IF 2 \notin types THEN Len(payload.logits[1]) ELSE Len(payload.vid_feat[1])

\* bsz: the leading dimension of the same tensor.
Bsz(types, payload) ==
    IF 2 \notin types THEN Len(payload.logits) ELSE Len(payload.vid_feat)

\* assert (spans[:, 1] >= spans[:, 0]).all() on integer-valued rows
AllValidInt(rows) == \A b \in DOMAIN rows : rows[b][2] >= rows[b][1]

\* new_loss = 1 - iou, then new_loss += term for each enabled identifier.
AddTerms(iouv, types, t1, t2, t3) ==
    [b \in DOMAIN iouv |->
        RAdd(RAdd(RAdd(RSub(One, iouv[b]),
                       IF 1 \in types THEN t1[b] ELSE Zero),
                  IF 2 \in types THEN t2[b] ELSE Zero),
             IF 3 \in types THEN t3[b] ELSE Zero)]

Aborted == [status |-> "AssertionError"]

\* First snapshot: the assertions look at the rounded spans.
new_loss_loss1(types, s1, s2, payload, map) ==
    LET iouv == DiagIou(s1, s2)
        L == VidClipLen(types, payload)
        r1 == [b \in DOMAIN s1 |-> RoundSpan(s1[b], L)]
        r2 == [b \in DOMAIN s2 |-> RoundSpan(s2[b], L)]
        bsz == Len(payload.logits)
        src == Grouped(r1, map, bsz)
        tgt == Grouped(r2, map, bsz)
        t1 == S_Diff(iouv, src, tgt, payload.logits)
        t2 == S_GT_P_loss1(iouv, src, tgt, payload.vid_feat)
        t3 == S_Q_P(iouv, src, payload.logits)
    IN  IF ~(AllValidInt(r1) /\ AllValidInt(r2)) THEN Aborted
        ELSE [status |-> "returned",
              loss |-> AddTerms(iouv, types, t1, t2, t3),
              iou |-> iouv,
              src_spans |-> src,
              tgt_spans |-> tgt,
              sim_diffs |-> IF 1 \in types
                            THEN S_Diff_sim_diffs(src, tgt, payload.logits) ELSE None,
              terms |-> [t \in types |-> IF t = 1 THEN t1 ELSE IF t = 2 THEN t2 ELSE t3],
              ious |-> None,
              sim_losses |-> None]

\* Second snapshot: the assertions look at the normalized spans; the spans are
\* mapped per video with l_clip = durations[i] // 2 and grouped in new_loss.
new_loss_loss2(types, s1, s2, payload, map, durs) ==
    LET iouv == DiagIou(s1, s2)
        bsz == Bsz(types, payload)
        m1 == [b \in DOMAIN s1 |-> MapSpan(s1[b], LClip(durs[map[b]]))]
        m2 == [b \in DOMAIN s2 |-> MapSpan(s2[b], LClip(durs[map[b]]))]
        src == Grouped(m1, map, bsz)
        tgt == Grouped(m2, map, bsz)
        t1 == S_Diff(iouv, src, tgt, payload.logits)
        t2 == S_GT_P_loss2(iouv, src, tgt, payload.vid_feat)
        t3 == S_Q_P(iouv, src, payload.logits)
        total == AddTerms(iouv, types, t1, t2, t3)
    IN  IF ~(AllValid(s1) /\ AllValid(s2)) THEN Aborted
        ELSE [status |-> "returned",
              loss |-> total,
              iou |-> iouv,
              src_spans |-> src,
              tgt_spans |-> tgt,
              sim_diffs |-> IF 1 \in types
                            THEN S_Diff_sim_diffs(src, tgt, payload.logits) ELSE None,
              terms |-> [t \in types |-> IF t = 1 THEN t1 ELSE IF t = 2 THEN t2 ELSE t3],
              ious |-> Grouped(iouv, map, bsz),
              sim_losses |-> Grouped(total, map, bsz)]

-----------------------------------------------------------------------------
(* Inputs of new_loss.                                                     *)

\* Rows <<predicted span, GT span>>.  A predicted span comes from the model
\* and may leave [0, 1] or be malformed; a GT span comes from the dataset:
\* its start is not negative, its end may over-run the video.
RowCases ==
    { <<<<Q(1, 4), Q(3, 4)>>, <<Q(1, 4), Q(3, 4)>>>>,    \* identical
      <<<<Q(1, 8), Q(5, 8)>>, <<Q(1, 4), Q(3, 4)>>>>,    \* partial overlap, ties in rounding
      <<<<Q(-1, 4), Q(1, 2)>>, <<Q(0, 1), Q(1, 2)>>>>,   \* predicted start below 0
      <<<<Q(1, 2), Q(5, 4)>>, <<Q(1, 2), Q(1, 1)>>>>,    \* predicted end above 1
      <<<<Q(-1, 2), Q(-1, 4)>>, <<Q(0, 1), Q(1, 4)>>>>,  \* predicted span wholly below 0
      <<<<Q(5, 16), Q(1, 4)>>, <<Q(0, 1), Q(1, 4)>>>>,   \* predicted end < start by less than a clip
      <<<<Q(3, 4), Q(1, 4)>>, <<Q(1, 4), Q(3, 4)>>>>,    \* predicted end < start
      <<<<Q(0, 1), Q(1, 2)>>, <<Q(1, 2), Q(1, 4)>>>>,    \* GT end < start
      <<<<Q(1, 2), Q(1, 2)>>, <<Q(1, 2), Q(1, 2)>>>>,    \* identical, zero length
      <<<<Q(1, 4), Q(7, 8)>>, <<Q(1, 4), Q(1, 1)>>>>,    \* different spans, same clips
      <<<<Q(0, 1), Q(1, 4)>>, <<Q(1, 2), Q(1, 1)>>>>,    \* disjoint
      <<<<Q(5, 4), Q(3, 2)>>, <<Q(1, 2), Q(5, 4)>>>> }   \* predicted span wholly above 1, GT end above 1

\* Batch rows and videos of the exhaustive inputs: two rows over two videos,
\* so that idx ranges over one video owning both rows and over both orders.
Rows == 1 .. 2
Videos == 1 .. 2

\* Payload k for sequence length L: logits (bsz, L) and vid_feat (bsz, L, L).
Payload(k, L) ==
    [logits |-> [v \in Videos |-> [t \in 1 .. L |-> Q((t * t + v + k) % 3, 2)]],
     vid_feat |-> [v \in Videos |->
                    [t \in 1 .. L |-> [u \in 1 .. L |-> Q((t + 2 * u + v + k) % 4, 4)]]]]

\* Durations with duration // 2 = ClipLen for the longest video, shorter ones beside it.
DurationCases ==
    { <<2 * ClipLen, 2 * ClipLen>>,
      <<2 * ClipLen + 1, 2 * ClipLen - 2>>,
      <<2 * ClipLen - 3, 2 * ClipLen>> }

\* The documented setting: duration 150, 75 clips.
MaxDuration == 150

InitLoss ==
    /\ pc = "loss_start"
    /\ snapshot \in {1, 2}
    /\ iou_loss_types \in SUBSET {1, 2, 3}
    /\ \/ /\ \E rows \in [Rows -> RowCases] :
                /\ spans1 = [b \in Rows |-> rows[b][1]]
                /\ spans2 = [b \in Rows |-> rows[b][2]]
          /\ idx \in [Rows -> Videos]
          /\ \E k \in 0 .. NumPayloads - 1 : sims = Payload(k, ClipLen)
          /\ IF snapshot = 1 THEN durations = None ELSE durations \in DurationCases
       \/ /\ snapshot = 2
          /\ iou_loss_types \in {{}, {3}}
          /\ spans1 = <<<<Q(1, 2), Q(1, 1)>>, <<Q(-1, 10), Q(11, 10)>>>>
          /\ spans2 = <<<<Q(1, 2), Q(1, 1)>>, <<Q(0, 1), Q(3, 10)>>>>
          /\ idx = <<1, 2>>
          /\ sims = Payload(0, LClip(MaxDuration))
          /\ durations = <<MaxDuration, MaxDuration>>
    /\ iou = None /\ union = None /\ iouT = None /\ unionT = None /\ giou = None
    /\ xx_spans = None /\ cxw_spans = None /\ xx_back = None
    /\ ret = None

Call_new_loss_loss1 ==
    /\ pc = "loss_start"
    /\ snapshot = 1
    /\ ret' = new_loss_loss1(iou_loss_types, spans1, spans2, sims, idx)
    /\ pc' = "loss_done"
    /\ UNCHANGED <<spans1, spans2, snapshot, iou_loss_types, idx, sims, durations,
                   convVars, iouVars>>

Call_new_loss_loss2 ==
    /\ pc = "loss_start"
    /\ snapshot = 2
    /\ ret' = new_loss_loss2(iou_loss_types, spans1, spans2, sims, idx, durations)
    /\ pc' = "loss_done"
    /\ UNCHANGED <<spans1, spans2, snapshot, iou_loss_types, idx, sims, durations,
                   convVars, iouVars>>

NextLoss == Call_new_loss_loss1 \/ Call_new_loss_loss2

SpecLoss == InitLoss /\ [][NextLoss]_vars

Init == InitConv \/ InitIou \/ InitLoss
Next == NextConv \/ NextIou \/ NextLoss
Spec == Init /\ [][Next]_vars

Returned == pc = "loss_done" /\ ret.status = "returned"

-----------------------------------------------------------------------------
(* Claims about new_loss and the similarity terms (SpecLoss).              *)

\* IoU of one predicted span with one GT span, from the definition.
PairIou(a, b) ==
    RDiv(PairInter(a, b), RSub(RAdd(Area(a), Area(b)), PairInter(a, b)))

HasInvertedRow == \E b \in DOMAIN spans1 :
    RLt(spans1[b][2], spans1[b][1]) \/ RLt(spans2[b][2], spans2[b][1])

(* C1: in both snapshots, with no term enabled, the returned loss is       *)
(* loss[b] = 1 - IoU(pred_spans[b], gt_spans[b]) for every batch row b:    *)
(* the IoU of row b with row b, never of a cross-row pair, and no          *)
(* similarity term contributes.                                            *)
C1_BaseLoss ==
    (Returned /\ iou_loss_types = {}) =>
        /\ DOMAIN ret.loss = DOMAIN spans1
        /\ \A b \in DOMAIN spans1 :
            /\ ret.iou[b] = PairIou(spans1[b], spans2[b])
            /\ ret.loss[b] = RSub(One, PairIou(spans1[b], spans2[b]))

\* new_loss has returned with no term enabled on two rows whose own IoUs
\* differ from each other and from the cross-row IoU.
C1_Witness ==
    /\ Returned /\ iou_loss_types = {} /\ snapshot = 2
    /\ ret.loss[1] # ret.loss[2]
    /\ PairIou(spans1[2], spans2[1]) # PairIou(spans1[2], spans2[2])
    /\ ret.loss[2] = RSub(One, PairIou(spans1[2], spans2[2]))
    /\ RLt(Zero, ret.loss[2]) /\ RLt(ret.loss[2], One)

\* Index span of batch row b as new_loss maps it for video idx[b].
RowIndexSpan(span, b) ==
    IF snapshot = 1 THEN RoundSpan(span, Len(sims.logits[1]))
    ELSE MapSpan(span, LClip(durations[idx[b]]))

\* The pooled similarity factor of term t for batch row b, computed from row
\* b's own spans and the similarity data of video idx[b].
RowFactor(t, b) ==
    LET L == Len(sims.logits[1])
        src == RowIndexSpan(spans1[b], b)
        tgt == RowIndexSpan(spans2[b], b)
        logit == sims.logits[idx[b]]
        v2v == sims.vid_feat[idx[b]]
    IN  IF t = 1 THEN RAbs(RSub(Mean1D(logit, SrcRange(src, L)),
                                Mean1D(logit, TgtRange(tgt, L))))
        ELSE IF t = 2 THEN
            IF snapshot = 1
            THEN RSub(One, Mean2D(v2v, SrcRange(src, L), TgtRange(tgt, L)))
            ELSE RSub(One, Mean2D(v2v, RawRange(src, L), RawRange(tgt, L)))
        ELSE RSub(One, Mean1D(logit, SrcRange(src, L)))

RowTerm(t, b) == RMul(RSub(One, PairIou(spans1[b], spans2[b])), RowFactor(t, b))

RowLoss(b) ==
    RAdd(RAdd(RAdd(RSub(One, PairIou(spans1[b], spans2[b])),
                   IF 1 \in iou_loss_types THEN RowTerm(1, b) ELSE Zero),
              IF 2 \in iou_loss_types THEN RowTerm(2, b) ELSE Zero),
         IF 3 \in iou_loss_types THEN RowTerm(3, b) ELSE Zero)

RowsAligned ==
    \A b \in DOMAIN spans1 :
        /\ \A t \in iou_loss_types : ret.terms[t][b] = RowTerm(t, b)
        /\ ret.loss[b] = RowLoss(b)

(* C2: in both snapshots, for every idx (rows of different videos          *)
(* interleaved and one video owning several rows included) and every       *)
(* enabled term, the value added to loss[b] is the term computed from      *)
(* batch row b's own index spans and the similarity data of video idx[b],  *)
(* times (1 - iou[b]); the k-th element of each term array belongs to      *)
(* batch row k.                                                            *)
C2_RowAligned == Returned => RowsAligned

\* The same statement for the idx mappings that list the videos in
\* non-decreasing order.
RowAlignedWhenSorted ==
    (Returned /\ \A b \in DOMAIN idx : \A c \in DOMAIN idx : b < c => idx[b] <= idx[c])
        => RowsAligned

(* C3: in both snapshots new_loss aborts with an assertion failure, and    *)
(* returns no loss, whenever a row of the normalized predicted batch or of *)
(* the normalized GT batch has end < start.                                *)
C3_InvertedAborts ==
    (pc = "loss_done" /\ HasInvertedRow) => ret.status = "AssertionError"

\* The same statement for the second snapshot alone.
InvertedAbortsLoss2 ==
    (pc = "loss_done" /\ snapshot = 2 /\ HasInvertedRow) => ret.status = "AssertionError"

\* r is torch.round(q): nearest integer, a tie going to the even one.
IsRound(q, r) ==
    LET d == RAbs(RSub(q, Q(r, 1)))
    IN  RLt(d, Half) \/ (d = Half /\ r % 2 = 0)

\* m is x * l_clip rounded, then clamped into [0, l_clip - 1].
IsMapped(x, l_clip, m) ==
    \E r \in -(2 * l_clip) .. 2 * l_clip :
        /\ IsRound(RMul(x, Q(l_clip, 1)), r)
        /\ m = (IF r < 0 THEN 0 ELSE IF r > l_clip - 1 THEN l_clip - 1 ELSE r)

\* Position of batch row b in the list of its video.
PosInGroup(b) == Cardinality({c \in DOMAIN idx : c <= b /\ idx[c] = idx[b]})

(* C5: in the second snapshot, for every batch row b with video i =        *)
(* idx[b], the mapped predicted span and the mapped GT span are            *)
(* (round(start * clip_len), round(end * clip_len)) with clip_len =        *)
(* durations[i] // 2, each component clamped to [0, clip_len - 1]; every   *)
(* mapped index lies in [0, clip_len - 1] and mapped start <= mapped end,  *)
(* also for predicted spans reaching outside [0, 1]; for duration 150 the  *)
(* span [0.5, 1.0] maps to [38, 74].                                       *)
C5_Mapping ==
    (Returned /\ snapshot = 2) =>
        \A b \in DOMAIN spans1 :
            LET i == idx[b]
                clip_len == durations[i] \div 2
                src == ret.src_spans[i][PosInGroup(b)]
                tgt == ret.tgt_spans[i][PosInGroup(b)]
            IN  /\ \A c \in {1, 2} :
                    /\ IsMapped(spans1[b][c], clip_len, src[c])
                    /\ IsMapped(spans2[b][c], clip_len, tgt[c])
                    /\ src[c] \in 0 .. clip_len - 1
                    /\ tgt[c] \in 0 .. clip_len - 1
                /\ src[1] <= src[2] /\ tgt[1] <= tgt[2]
                /\ (durations[i] = 150 /\ spans1[b] = <<Q(1, 2), One>>) => src = <<38, 74>>

\* Duration 150: [0.5, 1.0] has been mapped to [38, 74] and a predicted span
\* reaching below 0 and above 1 to [0, 74].
C5_Witness ==
    /\ Returned /\ snapshot = 2
    /\ durations = <<150, 150>>
    /\ spans1[1] = <<Q(1, 2), One>> /\ ret.src_spans[1][1] = <<38, 74>>
    /\ RLt(spans1[2][1], Zero) /\ RLt(One, spans1[2][2])
    /\ ret.src_spans[2][1] = <<0, 74>>

\* The entries of S_Diff's term array whose predicted and GT index spans coincide.
SameClips(k) ==
    LET e == VisitOrder(ret.src_spans)[k]
    IN  ret.src_spans[e[1]][e[2]] = ret.tgt_spans[e[1]][e[2]]

(* C8 as stated: in S_Diff (both snapshots), whenever a row's predicted    *)
(* index span is identical to its GT index span, the two pooled means are  *)
(* equal, so sim_diff = 0 and the S_Diff term of that row is 0 whatever    *)
(* iou value is passed in.                                                 *)
C8_Original ==
    (Returned /\ 1 \in iou_loss_types) =>
        \A k \in DOMAIN ret.sim_diffs :
            SameClips(k) => ret.sim_diffs[k] = Zero /\ ret.terms[1][k] = Zero

(* C8 amended: ... sim_diff = 0 and the S_Diff term of that row is 0 for   *)
(* every iou value that is a number; when the iou it is multiplied with is *)
(* NaN (a pair of zero-length spans), the term is NaN.                     *)
C8_Amended ==
    (Returned /\ 1 \in iou_loss_types) =>
        \A k \in DOMAIN ret.sim_diffs :
            SameClips(k) =>
                /\ ret.sim_diffs[k] = Zero
                /\ IF IsNaN(ret.iou[k]) THEN IsNaN(ret.terms[1][k])
                   ELSE ret.terms[1][k] = Zero

\* S_Diff has run on a row whose predicted span differs from the GT span but
\* covers the same clips (iou < 1, term 0), beside a row with a positive term.
C8_Witness ==
    /\ Returned /\ 1 \in iou_loss_types /\ snapshot = 1
    /\ idx = <<1, 2>>
    /\ spans1[1] # spans2[1] /\ SameClips(1)
    /\ RLt(ret.iou[1], One)
    /\ ret.terms[1][1] = Zero
    /\ ~SameClips(2) /\ RLt(Zero, ret.terms[1][2])

\* The <<st, end>> pairs that term t finally slices with, and the positions
\* each slice selects, for the entry of batch row b: S_Diff (1) uses the
\* predicted and the GT range, S_GT_P (2) both, S_Q_P (3) the predicted range.
UsedRanges(t, b) ==
    LET L == Len(sims.logits[1])
        src == ret.src_spans[idx[b]][PosInGroup(b)]
        tgt == ret.tgt_spans[idx[b]][PosInGroup(b)]
        s == [range |-> SrcClamp(src, L), sel |-> SrcRange(src, L)]
        g == [range |-> TgtClamp(tgt, L), sel |-> TgtRange(tgt, L)]
        sRaw == [range |-> src, sel |-> RawRange(src, L)]
        gRaw == [range |-> tgt, sel |-> RawRange(tgt, L)]
    IN  IF t = 1 THEN {s, g}
        ELSE IF t = 2 THEN (IF snapshot = 1 THEN {s, g} ELSE {sRaw, gRaw})
        ELSE {s}

\* 0 <= st <= end <= L - 1, and the slice selects exactly the clips st .. end.
RangeOk(u) ==
    LET L == Len(sims.logits[1])
    IN  /\ 0 <= u.range[1] /\ u.range[1] <= u.range[2] /\ u.range[2] <= L - 1
        /\ u.sel # {}
        /\ u.sel = u.range[1] .. u.range[2]

(* C11: for every predicted or GT span with end >= start, predicted spans  *)
(* lying partly or wholly outside [0, 1] included, the inclusive index     *)
(* range [st, end] that each similarity term (both snapshots) finally      *)
(* slices with satisfies 0 <= st <= end <= L - 1 for the sequence length L *)
(* of the similarity tensor; the pooled slice is never empty and selects   *)
(* no clip outside the clamped span.                                       *)
C11_IndexRange ==
    Returned =>
        \A t \in iou_loss_types : \A b \in DOMAIN spans1 :
            \A u \in UsedRanges(t, b) : RangeOk(u)

\* The same statement for the second snapshot alone, whose new_loss clamps
\* the mapped spans into [0, l_clip - 1] before any term sees them.
IndexRangeLoss2 ==
    (Returned /\ snapshot = 2) =>
        \A t \in iou_loss_types : \A b \in DOMAIN spans1 :
            \A u \in UsedRanges(t, b) : RangeOk(u)

\* The same statement for the first snapshot when no predicted span ends
\* below the first clip.
IndexRangeLoss1NonNegativeEnd ==
    (Returned /\ snapshot = 1 /\ \A b \in DOMAIN spans1 : ~RLt(spans1[b][2], Zero)) =>
        \A t \in iou_loss_types : \A b \in DOMAIN spans1 :
            \A u \in UsedRanges(t, b) : RangeOk(u)

\* Sequence length of the similarity tensors of the call.
SeqLen == Len(sims.logits[1])

\* Every video's duration gives the clip length the first snapshot uses.
DurationsMatch(durs) == \A v \in DOMAIN durs : LClip(durs[v]) = SeqLen

\* Durations with duration // 2 = SeqLen: an odd and an even one.
MatchingDurations == <<2 * SeqLen + 1, 2 * SeqLen>>

\* The loss array the other snapshot returns on the inputs of this call.
OtherSnapshotLoss ==
    IF snapshot = 1
    THEN new_loss_loss2(iou_loss_types, spans1, spans2, sims, idx, MatchingDurations).loss
    ELSE new_loss_loss1(iou_loss_types, spans1, spans2, sims, idx).loss

SnapshotsComparable ==
    /\ Returned /\ ~HasInvertedRow
    /\ snapshot = 2 => DurationsMatch(durations)

(* C12: the two snapshots of new_loss compute the same algorithm: for      *)
(* every set of enabled terms, every paired batch of spans with            *)
(* end >= start, every idx and every similarity payload, if each video's   *)
(* duration satisfies duration // 2 = L (the sequence length of the        *)
(* similarity tensor), the second snapshot returns the same per-example    *)
(* loss array as the first.                                                *)
C12_SnapshotsAgree == SnapshotsComparable => ret.loss = OtherSnapshotLoss

\* The same statement for the calls in which no predicted span ends below 0.
SnapshotsAgreeNonNegativeEnd ==
    (SnapshotsComparable /\ \A b \in DOMAIN spans1 : ~RLt(spans1[b][2], Zero))
        => ret.loss = OtherSnapshotLoss

\* The batch rows of video i.
RowsOf(i) == {b \in DOMAIN idx : idx[b] = i}

\* Number of entries of a per-video list of lists.
Entries(lists) == Cardinality({e \in (DOMAIN lists) \X (DOMAIN idx) : e[2] \in DOMAIN lists[e[1]]})

\* The four diagnostic lists of the second snapshot.
Diagnostics == {ret.src_spans, ret.tgt_spans, ret.ious, ret.sim_losses}

(* C13: when the second-snapshot new_loss returns, for every video i each  *)
(* of the four diagnostic lists (src_spans[i], tgt_spans[i], ious[i],      *)
(* sim_losses[i]) holds exactly one entry per batch row b with idx[b] = i, *)
(* in increasing order of b, so the entries over all videos total B; the   *)
(* entry of row b is row b's mapped predicted span, its mapped GT span,    *)
(* the raw paired iou[b] (not altered by the addition of terms to the      *)
(* loss) and the final loss[b] after every enabled term has been added.    *)
C13_Diagnostics ==
    (Returned /\ snapshot = 2) =>
        /\ \A d \in Diagnostics :
            /\ DOMAIN d = DOMAIN sims.logits
            /\ \A i \in DOMAIN d : Len(d[i]) = Cardinality(RowsOf(i))
            /\ Entries(d) = Len(spans1)
        /\ \A b \in DOMAIN spans1 :
            LET i == idx[b]
                k == PosInGroup(b)
            IN  /\ ret.src_spans[i][k] = RowIndexSpan(spans1[b], b)
                /\ ret.tgt_spans[i][k] = RowIndexSpan(spans2[b], b)
                /\ ret.ious[i][k] = PairIou(spans1[b], spans2[b])
                /\ ret.sim_losses[i][k] = ret.loss[b]

\* The second snapshot has returned with every term enabled for two rows of
\* the same video: its lists hold the two rows in batch order, with different
\* spans, ious and losses, the loss being more than 1 - iou; the other
\* video's lists are empty.
C13_Witness ==
    /\ Returned /\ snapshot = 2 /\ iou_loss_types = {1, 2, 3}
    /\ idx = <<2, 2>>
    /\ \A d \in Diagnostics : Len(d[1]) = 0 /\ Len(d[2]) = 2 /\ d[2][1] # d[2][2]
    /\ ret.ious[2][2] = PairIou(spans1[2], spans2[2])
    /\ ret.sim_losses[2][2] = ret.loss[2]
    /\ RLt(RSub(One, ret.ious[2][2]), ret.sim_losses[2][2])

====
